---- MODULE Spec2Model ----
(***************************************************************************)
(* Model of the three YouTube-Downloader scripts                           *)
(*   A = src/ytmediadownload.py        (sanitize_filename, no quality menu)*)
(*   B = src/ytmediaqualityselect.py   (quality menus, prompt_user_input)  *)
(*   C = src/ytmediadownload.py.py     (quality menus, prompts in main)    *)
(* Python strings are sequences of characters; None is the one-element     *)
(* sequence None, which no string of the model equals.  The download       *)
(* directory is the set fs of the paths that exist in it.                  *)
(***************************************************************************)
EXTENDS Integers, Sequences, FiniteSets, TLC

VARIABLES
    script,         \* which of the three scripts runs: "A", "B" or "C"
    ffmpeg,         \* what which("ffmpeg") finds: TRUE when the binary is there
    pc,             \* position of main
    fs,             \* paths existing in the download directory
    entry,          \* the line the user typed at the prompt just answered
    url,
    format_choice,
    audio_quality,
    video_quality,
    file_path,      \* first component of download_media/download_video's result
    title,          \* second component of it
    output_file,    \* the path generate_unique_filename returned in this iteration
    log,            \* the messages the last step logged, in order
    dl,             \* invocations of the download function in this iteration
    tc,             \* invocations of the transcoder (ffmpeg ... run) in this iteration
    call,           \* function specifications: the function and its arguments
    ret             \* function specifications: <<>> before the call, <<value>> after

vars == <<script, ffmpeg, pc, fs, entry, url, format_choice, audio_quality,
          video_quality, file_path, title, output_file, log, dl, tc, call, ret>>

mainvars == <<script, ffmpeg, pc, entry, url, format_choice, audio_quality,
              video_quality, file_path, title, output_file, log, dl, tc>>

(***************************************************************************)
(* Bounds of the model.                                                    *)
(***************************************************************************)
\* files the directory may hold before the user is no longer offered 'yes'
MaxFiles == 4
\* highest numeric suffix of a file existing before generate_unique_filename is called
MaxSuffix == 10
\* longest title given to sanitize_filename
SanMaxLen == 2

(***************************************************************************)
(* Python values.                                                          *)
(***************************************************************************)
None == <<"<None>">>

\* Python truthiness of a string-or-None value
Truthy(v) == v # None /\ v # <<>>

\* str.startswith
startswith(s, prefix) ==
    Len(s) >= Len(prefix) /\ SubSeq(s, 1, Len(prefix)) = prefix

\* str.replace for a one-character old and new
replace(s, old, new) == [k \in 1..Len(s) |-> IF s[k] = old THEN new ELSE s[k]]

Whitespace == {" ", "\t"}

RECURSIVE lstrip(_)
lstrip(s) == IF s # <<>> /\ Head(s) \in Whitespace THEN lstrip(Tail(s)) ELSE s

RECURSIVE rstrip(_)
rstrip(s) ==
    IF s # <<>> /\ s[Len(s)] \in Whitespace THEN rstrip(SubSeq(s, 1, Len(s) - 1)) ELSE s

\* str.strip
strip(s) == rstrip(lstrip(s))

LowerOf(c) ==
    CASE c = "A" -> "a" [] c = "E" -> "e" [] c = "H" -> "h" [] c = "I" -> "i"
      [] c = "M" -> "m" [] c = "N" -> "n" [] c = "O" -> "o" [] c = "P" -> "p"
      [] c = "S" -> "s" [] c = "Y" -> "y" [] OTHER -> c

\* str.lower
lower(s) == [k \in 1..Len(s) |-> LowerOf(s[k])]

Digit == <<"0", "1", "2", "3", "4", "5", "6", "7", "8", "9">>

\* the decimal rendering of a natural number in an f-string
RECURSIVE Str(_)
Str(n) == IF n < 10 THEN <<Digit[n + 1]>> ELSE Str(n \div 10) \o <<Digit[(n % 10) + 1]>>

\* the string literals of the scripts
MP3 == <<"m", "p", "3">>
MP4 == <<"m", "p", "4">>
M4A == <<"m", "4", "a">>
LOW == <<"l", "o", "w">>
MEDIUM == <<"m", "e", "d", "i", "u", "m">>
HIGH == <<"h", "i", "g", "h">>
P720 == <<"7", "2", "0", "p">>
P1080 == <<"1", "0", "8", "0", "p">>
P1440 == <<"1", "4", "4", "0", "p">>
YES == <<"y", "e", "s">>
NO == <<"n", "o">>
\* "https://www.youtube.com/", in four pieces
YouTubePrefix == <<"https:", "//", "www.youtube.com", "/">>
\* the default of info.get('title', 'video') and the stem of the video template
VIDEO == <<"video">>
AUDIO == <<"audio">>

\* pathlib: directory / name
PathJoin(dir, name) == <<dir>> \o name

download_path == "~/Downloads"

(***************************************************************************)
(* sanitize_filename (script A).                                           *)
(***************************************************************************)
invalid_chars == <<"<", ">", ":", "\"", "/", "\\", "|", "?", "*">>

RECURSIVE sanitize_loop(_, _)
sanitize_loop(t, j) ==
    IF j > Len(invalid_chars) THEN t
    ELSE sanitize_loop(replace(t, invalid_chars[j], "_"), j + 1)

\* mutant: only the path separators are replaced
sanitize_filename_separators(t) == replace(replace(t, "/", "_"), "\\", "_")

sanitize_filename(t) == sanitize_loop(t, 1)

\* the title clean-up of scripts B and C
replace_separators(t) == replace(replace(t, "/", "_"), "\\", "_")

(***************************************************************************)
(* The quality tables (scripts B and C).                                   *)
(***************************************************************************)
\* mutant: the default is the highest bitrate
bitrates_get_high_default(quality) ==
    CASE quality = LOW -> "128k"
      [] quality = MEDIUM -> "192k"
      [] quality = HIGH -> "320k"
      [] OTHER -> "320k"

\* bitrates.get(quality, '192k')
bitrates_get(quality) ==
    CASE quality = LOW -> "128k"
      [] quality = MEDIUM -> "192k"
      [] quality = HIGH -> "320k"
      [] OTHER -> "192k"

\* quality_formats.get(video_quality, 'bestvideo+bestaudio/best')
quality_formats_get(quality) ==
    CASE quality = P720 -> "bestvideo[height<=720]+bestaudio/best"
      [] quality = P1080 -> "bestvideo[height<=1080]+bestaudio/best"
      [] quality = P1440 -> "bestvideo[height<=1440]+bestaudio/best"
      [] OTHER -> "bestvideo+bestaudio/best"

(***************************************************************************)
(* generate_unique_filename (the same in the three scripts).               *)
(***************************************************************************)
\* the loop: base_file is the candidate under test, i the next counter
RECURSIVE unique_loop(_, _, _, _, _, _)
unique_loop(files, output_path, t, extension, base_file, i) ==
    IF base_file \in files
    THEN unique_loop(files, output_path, t, extension,
                     PathJoin(output_path, t \o <<"_">> \o Str(i) \o <<".">> \o extension),
                     i + 1)
    ELSE base_file

\* mutant: the counter starts at 0
generate_unique_filename_from_zero(files, output_path, t, extension) ==
    unique_loop(files, output_path, t, extension,
                PathJoin(output_path, t \o <<".">> \o extension), 0)

\* mutant: an if instead of the while, so one retry only
generate_unique_filename_once(files, output_path, t, extension) ==
    IF PathJoin(output_path, t \o <<".">> \o extension) \in files
    THEN PathJoin(output_path, t \o <<"_">> \o Str(1) \o <<".">> \o extension)
    ELSE PathJoin(output_path, t \o <<".">> \o extension)

generate_unique_filename(files, output_path, t, extension) ==
    unique_loop(files, output_path, t, extension,
                PathJoin(output_path, t \o <<".">> \o extension), 1)

(***************************************************************************)
(* The state of main when only a function is exercised.                    *)
(***************************************************************************)
MainIdle ==
    /\ script = "A" /\ ffmpeg = TRUE /\ pc = "function"
    /\ entry = None /\ url = None /\ format_choice = None
    /\ audio_quality = None /\ video_quality = None
    /\ file_path = None /\ title = None /\ output_file = None
    /\ log = <<>> /\ dl = <<>> /\ tc = <<>>

\* the sequences over S of length at most n
SeqsUpTo(S, n) == UNION {[1..m -> S] : m \in 0..n}

(***************************************************************************)
(* SpecFn: sanitize_filename and the quality tables applied to inputs      *)
(* drawn from bounded sets.                                                *)
(***************************************************************************)
SanChars == {invalid_chars[j] : j \in 1..Len(invalid_chars)} \cup {"a", "_"}

SanTitles == SeqsUpTo(SanChars, SanMaxLen)

\* labels handed to the tables: the menu's, a missing one, and unrecognized ones
Labels == {LOW, MEDIUM, HIGH, P720, P1080, P1440, None, <<>>,
           <<"b", "e", "s", "t">>, <<"H", "I", "G", "H">>, <<"7", "2", "0">>}

FnCalls ==
    [fn : {"sanitize_filename"}, title : SanTitles, ext : {None}, label : {None}]
    \cup [fn : {"bitrates.get", "quality_formats.get"}, title : {None}, ext : {None},
          label : Labels]

InitFn ==
    /\ MainIdle
    /\ fs = {}
    /\ call \in FnCalls
    /\ ret = <<>>

CallSanitize ==
    /\ pc = "function" /\ ret = <<>>
    /\ call.fn = "sanitize_filename"
    /\ ret' = <<sanitize_filename(call.title)>>
    /\ UNCHANGED <<mainvars, fs, call>>

CallBitrate ==
    /\ pc = "function" /\ ret = <<>>
    /\ call.fn = "bitrates.get"
    /\ ret' = <<bitrates_get(call.label)>>
    /\ UNCHANGED <<mainvars, fs, call>>

CallFormat ==
    /\ pc = "function" /\ ret = <<>>
    /\ call.fn = "quality_formats.get"
    /\ ret' = <<quality_formats_get(call.label)>>
    /\ UNCHANGED <<mainvars, fs, call>>

NextFn == CallSanitize \/ CallBitrate \/ CallFormat

SpecFn == InitFn /\ [][NextFn]_vars

(***************************************************************************)
(* SpecAlloc: generate_unique_filename called on a directory holding any   *)
(* subset of AllocUniverse; the caller then creates the file and calls     *)
(* again.                                                                  *)
(***************************************************************************)
TitleA == <<"a">>
TitleA1 == <<"a", "_", "1">>

\* dir/title.ext for k = 0, dir/title_k.ext for k >= 1
NumberedPath(t, k, extension) ==
    IF k = 0 THEN PathJoin(download_path, t \o <<".">> \o extension)
    ELSE PathJoin(download_path, t \o <<"_">> \o Str(k) \o <<".">> \o extension)

AllocUniverse ==
    {NumberedPath(TitleA, k, MP3) : k \in 0..MaxSuffix}
    \cup {NumberedPath(TitleA1, 1, MP3), NumberedPath(TitleA, 0, MP4)}

AllocCalls ==
    [fn : {"generate_unique_filename"}, title : {TitleA, TitleA1}, ext : {MP3, MP4},
     label : {None}]

InitAlloc ==
    /\ MainIdle
    /\ fs \in SUBSET AllocUniverse
    /\ call \in AllocCalls
    /\ ret = <<>>

CallAllocate ==
    /\ pc = "function" /\ ret = <<>>
    /\ call.fn = "generate_unique_filename"
    /\ ret' = <<generate_unique_filename(fs, download_path, call.title, call.ext)>>
    /\ UNCHANGED <<mainvars, fs, call>>

CallerCreates ==
    /\ pc = "function" /\ ret # <<>>
    /\ Cardinality(fs) <= MaxSuffix
    /\ fs' = fs \cup {ret[1]}
    /\ ret' = <<>>
    /\ call' \in AllocCalls
    /\ UNCHANGED mainvars

NextAlloc == CallAllocate \/ CallerCreates

SpecAlloc == InitAlloc /\ [][NextAlloc]_vars

(***************************************************************************)
(* Spec: main of the three scripts.                                        *)
(*                                                                         *)
(* url, format_choice, audio_quality and video_quality are the values the  *)
(* prompts of the running iteration have collected (locals of              *)
(* prompt_user_input in A and B, of main in C); B's main receives None for *)
(* all four when an entry is refused.  Locals that are dead at the start   *)
(* of an iteration (every one is assigned before it is read) are reset to  *)
(* None there.  mkdir of the download directory is not modelled: fs holds  *)
(* the files in it.                                                        *)
(***************************************************************************)
NoCall == [fn |-> "none", title |-> None, ext |-> None, label |-> None]

\* what the user may type at the prompts
UrlEntries ==
    {YouTubePrefix \o <<"watch?v=1">>,
     <<" ">> \o YouTubePrefix \o <<"watch?v=1">>,
     <<"https:", "//", "youtu.be", "/", "1">>}

FormatEntries == {MP3, MP4, <<" ", "M", "P", "3", " ">>, <<"a", "v", "i">>}

QualityEntries ==
    {LOW, MEDIUM, HIGH, <<"H", "i", "g", "h", " ">>, P720, P1080, P1440,
     <<"4", "8", "0", "p">>}

ContinueEntries == {YES, NO, <<"Y", "E", "S", " ">>, <<"y">>}

\* what the extractor reports as the video's title: a non-empty string (yt-dlp puts
\* a generic title in place of an empty one), or no 'title' key at all
Missing == <<"<missing>">>

InfoTitles == {<<"a">>, <<"a", ":">>, <<"/">>, Missing}

\* info.get('title', 'video')
info_get_title(info) == IF info = Missing THEN VIDEO ELSE info

\* files the directory may hold when the program starts
PreExisting == {PathJoin(download_path, <<"a", ".">> \o MP3)}

\* the logged messages
ErrFfmpeg == "ERROR ffmpeg is not installed. Please install it to use this script."
ErrUrl == "ERROR Invalid YouTube URL. Please provide a valid URL."
ErrFormat == "ERROR Invalid choice. Please choose 'mp3' or 'mp4'."
ErrAudio == "ERROR Invalid choice. Please choose 'low', 'medium', or 'high'."
ErrVideo == "ERROR Invalid choice. Please choose '720p', '1080p', or '1440p'."
ErrDownload == "ERROR Download error"
ErrConversion == "ERROR Conversion error"
ErrFailedMp3 == "ERROR Failed to convert to MP3."
ErrReencode == "ERROR Re-encoding error"
ErrFailedMp4 == "ERROR Failed to re-encode MP4 file."
ErrRemove == "ERROR Error removing temporary file"
ErrContinue == "ERROR Invalid input. Please enter 'yes' or 'no'."
InfoDownload == "INFO Download complete."
InfoAttempt == "INFO Attempting to convert to MP3..."
InfoConversion == "INFO Conversion to MP3 complete."
InfoMp3Saved == "INFO MP3 file saved"
InfoReencode == "INFO Re-encoding to MP4 complete."
InfoMp4Saved == "INFO MP4 file saved"

Init ==
    /\ script \in {"A", "B", "C"}
    /\ ffmpeg \in BOOLEAN
    /\ pc = "start"
    /\ fs \in SUBSET PreExisting
    /\ entry = None /\ url = None /\ format_choice = None
    /\ audio_quality = None /\ video_quality = None
    /\ file_path = None /\ title = None /\ output_file = None
    /\ log = <<>> /\ dl = <<>> /\ tc = <<>>
    /\ call = NoCall /\ ret = <<>>

\* the start of an iteration of main's loop
NewIteration ==
    /\ pc' = "url"
    /\ url' = None /\ format_choice' = None
    /\ audio_quality' = None /\ video_quality' = None
    /\ file_path' = None /\ title' = None /\ output_file' = None
    /\ dl' = <<>> /\ tc' = <<>>

\* mutant: the missing binary is reported and the loop is entered all the same
StartupMissing_NoReturn ==
    /\ pc = "start" /\ ~ffmpeg
    /\ log' = <<ErrFfmpeg>>
    /\ pc' = "url"
    /\ UNCHANGED <<script, ffmpeg, fs, entry, url, format_choice, audio_quality,
                   video_quality, file_path, title, output_file, dl, tc, call, ret>>

\* main: which("ffmpeg") finds nothing
StartupMissing ==
    /\ pc = "start" /\ ~ffmpeg
    /\ log' = <<ErrFfmpeg>>
    /\ pc' = "done"
    /\ UNCHANGED <<script, ffmpeg, fs, entry, url, format_choice, audio_quality,
                   video_quality, file_path, title, output_file, dl, tc, call, ret>>

\* main: which("ffmpeg") finds the binary
StartupOk ==
    /\ pc = "start" /\ ffmpeg
    /\ log' = <<>>
    /\ pc' = "url"
    /\ UNCHANGED <<script, ffmpeg, fs, entry, url, format_choice, audio_quality,
                   video_quality, file_path, title, output_file, dl, tc, call, ret>>

\* mutant: the URL is not validated
EnterUrl_Unchecked ==
    /\ pc = "url"
    /\ \E e \in UrlEntries :
          /\ entry' = e
          /\ url' = e /\ pc' = "format" /\ log' = <<>>
    /\ UNCHANGED <<script, ffmpeg, fs, format_choice, audio_quality, video_quality,
                   file_path, title, output_file, dl, tc, call, ret>>

\* the URL prompt
EnterUrl ==
    /\ pc = "url"
    /\ \E e \in UrlEntries :
          /\ entry' = e
          /\ IF startswith(e, YouTubePrefix)
             THEN url' = e /\ pc' = "format" /\ log' = <<>>
             ELSE /\ log' = <<ErrUrl>>
                  /\ pc' = "url"
                  /\ url' = IF script = "B" THEN None ELSE e
    /\ UNCHANGED <<script, ffmpeg, fs, format_choice, audio_quality, video_quality,
                   file_path, title, output_file, dl, tc, call, ret>>

\* the format prompt
EnterFormat ==
    /\ pc = "format"
    /\ \E e \in FormatEntries :
          LET f == lower(strip(e)) IN
          /\ entry' = e
          /\ IF f \in {MP3, MP4}
             THEN /\ format_choice' = f
                  /\ url' = url
                  /\ log' = <<>>
                  /\ IF script = "A"
                     THEN pc' = "download" /\ UNCHANGED <<audio_quality, video_quality>>
                     ELSE pc' = "quality" /\ audio_quality' = MEDIUM /\ video_quality' = None
             ELSE /\ log' = <<ErrFormat>>
                  /\ UNCHANGED <<audio_quality, video_quality>>
                  /\ IF script = "A"
                     THEN pc' = "format" /\ format_choice' = f /\ url' = url
                     ELSE /\ pc' = "url"
                          /\ format_choice' = IF script = "B" THEN None ELSE f
                          /\ url' = IF script = "B" THEN None ELSE url
    /\ UNCHANGED <<script, ffmpeg, fs, file_path, title, output_file, dl, tc, call, ret>>

\* the quality prompt of scripts B and C: audio for mp3, video for mp4
EnterQuality ==
    /\ pc = "quality"
    /\ \E e \in QualityEntries :
          LET q == lower(strip(e))
              ok == IF format_choice = MP3 THEN q \in {LOW, MEDIUM, HIGH}
                    ELSE q \in {P720, P1080, P1440}
              refused == ~ok /\ script = "B"
          IN
          /\ entry' = e
          /\ audio_quality' = IF refused THEN None
                              ELSE IF format_choice = MP3 THEN q ELSE audio_quality
          /\ video_quality' = IF refused THEN None
                              ELSE IF format_choice = MP3 THEN video_quality ELSE q
          /\ url' = IF refused THEN None ELSE url
          /\ format_choice' = IF refused THEN None ELSE format_choice
          /\ IF ok
             THEN pc' = "download" /\ log' = <<>>
             ELSE /\ pc' = "url"
                  /\ log' = <<IF format_choice = MP3 THEN ErrAudio ELSE ErrVideo>>
    /\ UNCHANGED <<script, ffmpeg, fs, file_path, title, output_file, dl, tc, call, ret>>

\* ydl_opts['format']
ydl_format(fmt, vq) ==
    IF fmt = MP3 THEN "bestaudio/best"
    ELSE IF script = "A" THEN "bestvideo+bestaudio/best"
    ELSE quality_formats_get(vq)

\* the file the download leaves in the directory: audio.m4a or video.mp4
temp_file(fmt) ==
    IF fmt = MP3 THEN PathJoin(download_path, AUDIO \o <<".">> \o M4A)
    ELSE PathJoin(download_path, VIDEO \o <<".">> \o MP4)

\* the title as the download function returns it
clean_title(t) == IF script = "A" THEN sanitize_filename(t) ELSE replace_separators(t)

\* the invocation of download_media / download_video, with what the collaborator did
DownloadCall(result) ==
    [url |-> url, format_choice |-> format_choice, audio_quality |-> audio_quality,
     video_quality |-> video_quality, selector |-> ydl_format(format_choice, video_quality),
     result |-> result]

\* main's test "if file_path and title" and the branch on format_choice
AfterDownload(fp, t) ==
    IF Truthy(fp) /\ Truthy(t)
    THEN IF format_choice = MP3 THEN "convert" ELSE "mp4"
    ELSE "continue"

\* the download function returns normally
DownloadOk ==
    /\ pc = "download"
    /\ \E info \in InfoTitles :
          /\ title' = clean_title(info_get_title(info))
          /\ file_path' = temp_file(format_choice)
          /\ pc' = AfterDownload(file_path', title')
    /\ fs' = fs \cup {temp_file(format_choice)}
    /\ dl' = Append(dl, DownloadCall("ok"))
    /\ log' = <<InfoDownload>>
    /\ entry' = None
    /\ UNCHANGED <<script, ffmpeg, url, format_choice, audio_quality, video_quality,
                   output_file, tc, call, ret>>

\* mutant: main does not test what the download function returned
DownloadFails_Unchecked ==
    /\ pc = "download"
    /\ title' = None
    /\ file_path' = None
    /\ pc' = IF format_choice = MP3 THEN "convert" ELSE "mp4"
    /\ dl' = Append(dl, DownloadCall("DownloadError"))
    /\ log' = <<ErrDownload>>
    /\ entry' = None
    /\ UNCHANGED <<script, ffmpeg, fs, url, format_choice, audio_quality, video_quality,
                   output_file, tc, call, ret>>

\* extract_info or download raises DownloadError
DownloadFails ==
    /\ pc = "download"
    /\ title' = None
    /\ file_path' = None
    /\ pc' = AfterDownload(file_path', title')
    /\ dl' = Append(dl, DownloadCall("DownloadError"))
    /\ log' = <<ErrDownload>>
    /\ entry' = None
    /\ UNCHANGED <<script, ffmpeg, fs, url, format_choice, audio_quality, video_quality,
                   output_file, tc, call, ret>>

\* mutant: the bitrate is the fixed one of script A
convert_bitrate_fixed(quality) == "192k"

\* audio_bitrate of convert_to_mp3
convert_bitrate(quality) == IF script = "A" THEN "192k" ELSE bitrates_get(quality)

\* the invocation of ffmpeg.input(...).output(...).run()
TranscoderCall(out, bitrate) ==
    [input |-> file_path, output |-> out, audio_bitrate |-> bitrate]

\* convert_to_mp3 and main's report of it: the transcoder succeeds
ConvertOk ==
    /\ pc = "convert"
    /\ output_file' = generate_unique_filename(fs, download_path, title, MP3)
    /\ tc' = Append(tc, TranscoderCall(output_file', convert_bitrate(audio_quality)))
    /\ fs' = fs \cup {output_file'}
    /\ log' = IF script = "A" THEN <<InfoAttempt, InfoConversion, InfoMp3Saved>>
              ELSE <<InfoConversion, InfoMp3Saved>>
    /\ pc' = "unlink"
    /\ UNCHANGED <<script, ffmpeg, entry, url, format_choice, audio_quality,
                   video_quality, file_path, title, dl, call, ret>>

\* mutant: a failed conversion ends the program
ConvertFails_Exit ==
    /\ pc = "convert"
    /\ output_file' = generate_unique_filename(fs, download_path, title, MP3)
    /\ tc' = Append(tc, TranscoderCall(output_file', convert_bitrate(audio_quality)))
    /\ fs' = fs
    /\ log' = <<ErrConversion>>
    /\ pc' = "done"
    /\ UNCHANGED <<script, ffmpeg, entry, url, format_choice, audio_quality,
                   video_quality, file_path, title, dl, call, ret>>

\* convert_to_mp3 and main's report of it: the transcoder raises ffmpeg.Error,
\* having written its output file or not
ConvertFails ==
    /\ pc = "convert"
    /\ output_file' = generate_unique_filename(fs, download_path, title, MP3)
    /\ tc' = Append(tc, TranscoderCall(output_file', convert_bitrate(audio_quality)))
    /\ fs' \in {fs, fs \cup {output_file'}}
    /\ log' = IF script = "A" THEN <<InfoAttempt, ErrConversion, ErrFailedMp3>>
              ELSE <<ErrConversion, ErrFailedMp3>>
    /\ pc' = "unlink"
    /\ UNCHANGED <<script, ffmpeg, entry, url, format_choice, audio_quality,
                   video_quality, file_path, title, dl, call, ret>>

\* main: file_path.unlink() in its try block
Unlink ==
    /\ pc = "unlink"
    /\ IF file_path \in fs
       THEN fs' = fs \ {file_path} /\ log' = <<>>
       ELSE fs' = fs /\ log' = <<ErrRemove>>
    /\ pc' = "continue"
    /\ UNCHANGED <<script, ffmpeg, entry, url, format_choice, audio_quality,
                   video_quality, file_path, title, output_file, dl, tc, call, ret>>

\* script A, mp4: reencode_to_mp4 succeeds and the downloaded file is removed
ReencodeOk ==
    /\ pc = "mp4" /\ script = "A"
    /\ output_file' = generate_unique_filename(fs, download_path, title, MP4)
    /\ tc' = Append(tc, TranscoderCall(output_file', "192k"))
    /\ fs' = (fs \cup {output_file'}) \ {file_path}
    /\ log' = <<InfoReencode, InfoMp4Saved>>
    /\ pc' = "continue"
    /\ UNCHANGED <<script, ffmpeg, entry, url, format_choice, audio_quality,
                   video_quality, file_path, title, dl, call, ret>>

\* script A, mp4: reencode_to_mp4 fails and the downloaded file stays
ReencodeFails ==
    /\ pc = "mp4" /\ script = "A"
    /\ output_file' = generate_unique_filename(fs, download_path, title, MP4)
    /\ tc' = Append(tc, TranscoderCall(output_file', "192k"))
    /\ fs' \in {fs, fs \cup {output_file'}}
    /\ log' = <<ErrReencode, ErrFailedMp4>>
    /\ pc' = "continue"
    /\ UNCHANGED <<script, ffmpeg, entry, url, format_choice, audio_quality,
                   video_quality, file_path, title, dl, call, ret>>

\* scripts B and C, mp4: the downloaded file is renamed to the unique name
RenameMp4 ==
    /\ pc = "mp4" /\ script # "A"
    /\ output_file' = generate_unique_filename(fs, download_path, title, MP4)
    /\ fs' = (fs \ {file_path}) \cup {output_file'}
    /\ log' = <<InfoMp4Saved>>
    /\ pc' = "continue"
    /\ UNCHANGED <<script, ffmpeg, entry, url, format_choice, audio_quality,
                   video_quality, file_path, title, tc, dl, call, ret>>

\* the directory holds as many files as the model lets it: 'yes' is not typed again
Full == Cardinality(fs) >= MaxFiles

\* the continue prompt: prompt_continue in A, the bare input in B, the loop in C
Continue ==
    /\ pc = "continue"
    /\ \E e \in ContinueEntries :
          LET c == lower(strip(e)) IN
          /\ c = YES => ~Full
          /\ entry' = e
          /\ IF c = YES
             THEN NewIteration /\ log' = <<>>
             ELSE IF c = NO \/ script = "B"
             THEN /\ pc' = "done" /\ log' = <<>>
                  /\ UNCHANGED <<url, format_choice, audio_quality, video_quality,
                                 file_path, title, output_file, dl, tc>>
             ELSE /\ pc' = "continue" /\ log' = <<ErrContinue>>
                  /\ UNCHANGED <<url, format_choice, audio_quality, video_quality,
                                 file_path, title, output_file, dl, tc>>
    /\ UNCHANGED <<script, ffmpeg, fs, call, ret>>

Next ==
    \/ StartupMissing
    \/ StartupOk
    \/ EnterUrl
    \/ EnterFormat
    \/ EnterQuality
    \/ DownloadOk
    \/ DownloadFails
    \/ ConvertOk
    \/ ConvertFails
    \/ Unlink
    \/ ReencodeOk
    \/ ReencodeFails
    \/ RenameMp4
    \/ Continue

Spec == Init /\ [][Next]_vars

(***************************************************************************)
(* Claims about the functions.                                             *)
(***************************************************************************)
\* C1: the path generate_unique_filename returns does not exist in the directory
\* when it is returned, and the call leaves the directory as it was, so the path
\* still does not exist after the call, until the caller creates it.
C1_ReturnedPathDoesNotExist ==
    /\ [](ret # <<>> => ret[1] \notin fs)
    /\ [][ret = <<>> /\ ret' # <<>> => fs' = fs]_vars

\* C1 witness: base and suffixes 1 to 9 exist and the call returned suffix 10.
C1_Witness ==
    /\ ret # <<>>
    /\ call.title = TitleA /\ call.ext = MP3
    /\ \A k \in 0..9 : NumberedPath(TitleA, k, MP3) \in fs
    /\ ret[1] = <<download_path, "a", "_", "1", "0", ".", "m", "p", "3">>

\* C2: the call returns the first candidate of dir/title.ext, dir/title_1.ext,
\* dir/title_2.ext, ... that does not exist, whatever exists further on.
C2_FirstFreeCandidate ==
    ret # <<>> =>
        \E k \in 0..Cardinality(fs) :
            /\ ret[1] = NumberedPath(call.title, k, call.ext)
            /\ NumberedPath(call.title, k, call.ext) \notin fs
            /\ \A j \in 0..(k - 1) : NumberedPath(call.title, j, call.ext) \in fs

\* C2 witness: a.mp3 and a_2.mp3 exist, a_1.mp3 does not, and a_1.mp3 is returned.
C2_Witness ==
    /\ ret = << <<download_path, "a", "_", "1", ".", "m", "p", "3">> >>
    /\ call.title = TitleA
    /\ <<download_path, "a", ".", "m", "p", "3">> \in fs
    /\ <<download_path, "a", "_", "2", ".", "m", "p", "3">> \in fs

InvalidSet == {"<", ">", ":", "\"", "/", "\\", "|", "?", "*"}

\* C3: sanitize_filename returns a string of the same length in which each of
\* < > : " / \ | ? * is an underscore and every other character is unchanged.
C3_SanitizePointwise ==
    (call.fn = "sanitize_filename" /\ ret # <<>>) =>
        /\ Len(ret[1]) = Len(call.title)
        /\ \A k \in 1..Len(call.title) :
              ret[1][k] = IF call.title[k] \in InvalidSet THEN "_" ELSE call.title[k]
        /\ \A k \in 1..Len(ret[1]) : ret[1][k] \notin InvalidSet
        /\ ((\A k \in 1..Len(call.title) : call.title[k] \notin InvalidSet)
                => ret[1] = call.title)

\* C3 witness: the title ?a came back as _a.
C3_Witness ==
    /\ call.fn = "sanitize_filename"
    /\ call.title = <<"?", "a">>
    /\ ret = << <<"_", "a">> >>

\* C4: the audio table yields 128k, 192k, 320k for low, medium, high and 192k for
\* any other label; the video table yields the selector capped at 720, 1080, 1440
\* for 720p, 1080p, 1440p and the uncapped selector for any other label.
C4_QualityTables ==
    /\ (call.fn = "bitrates.get" /\ ret # <<>>) =>
          ret[1] = IF call.label = LOW THEN "128k"
                   ELSE IF call.label = MEDIUM THEN "192k"
                   ELSE IF call.label = HIGH THEN "320k"
                   ELSE "192k"
    /\ (call.fn = "quality_formats.get" /\ ret # <<>>) =>
          ret[1] = IF call.label = P720 THEN "bestvideo[height<=720]+bestaudio/best"
                   ELSE IF call.label = P1080 THEN "bestvideo[height<=1080]+bestaudio/best"
                   ELSE IF call.label = P1440 THEN "bestvideo[height<=1440]+bestaudio/best"
                   ELSE "bestvideo+bestaudio/best"

\* C4 witness: a missing video label resolved to the uncapped selector.
C4_Witness ==
    /\ call.fn = "quality_formats.get"
    /\ call.label = None
    /\ ret = <<"bestvideo+bestaudio/best">>

(***************************************************************************)
(* Claims about main.                                                      *)
(***************************************************************************)
HasInvalidChar(t) == \E k \in 1..Len(t) : t[k] \in InvalidSet

\* C5: in every script, the title main is about to pass to generate_unique_filename
\* (directly, or through convert_to_mp3) holds none of < > : " / \ | ? *.
C5_TitleAlreadySanitized ==
    pc \in {"convert", "mp4"} => ~HasInvalidChar(title)

\* the entry typed at prompt p is not an accepted one
InvalidEntry(p, e, fmt) ==
    \/ p = "url" /\ ~startswith(e, YouTubePrefix)
    \/ p = "format" /\ lower(strip(e)) \notin {MP3, MP4}
    \/ p = "quality" /\ fmt = MP3 /\ lower(strip(e)) \notin {LOW, MEDIUM, HIGH}
    \/ p = "quality" /\ fmt # MP3 /\ lower(strip(e)) \notin {P720, P1080, P1440}

ValidDownloadCall(c) ==
    /\ startswith(c.url, YouTubePrefix)
    /\ c.format_choice \in {MP3, MP4}
    /\ script \in {"B", "C"} =>
          /\ c.format_choice = MP3 => c.audio_quality \in {LOW, MEDIUM, HIGH}
          /\ c.format_choice = MP4 => c.video_quality \in {P720, P1080, P1440}

\* C6: the download function is only ever invoked with a URL that starts with
\* https://www.youtube.com/, a format of mp3 or mp4 and, in B and C, a quality of
\* the menu; an invalid entry is logged and leads back to a prompt of the loop
\* (the same one, or the URL prompt of a fresh iteration), with nothing invoked.
C6_InvalidInputStopsAtPrompt ==
    /\ [](\A k \in 1..Len(dl) : ValidDownloadCall(dl[k]))
    /\ [][(pc \in {"url", "format", "quality"} /\ InvalidEntry(pc, entry', format_choice))
            => /\ Len(log') = 1
               /\ log'[1] \in {ErrUrl, ErrFormat, ErrAudio, ErrVideo}
               /\ pc' \in {"url", pc}
               /\ dl' = <<>> /\ tc' = <<>> /\ fs' = fs]_vars

\* C6 witness: script B refused the video quality 480p and is back at the URL prompt.
C6_Witness ==
    /\ script = "B"
    /\ pc = "url"
    /\ entry = <<"4", "8", "0", "p">>
    /\ log = <<ErrVideo>>
    /\ dl = <<>>

\* C7: with no ffmpeg binary main logs the error and returns: no prompt is answered,
\* nothing is downloaded or transcoded, the loop is not entered, and the check is
\* not made again.
C7_MissingFfmpegIsFatal ==
    /\ [](~ffmpeg =>
            /\ pc \in {"start", "done"}
            /\ pc = "done" => log = <<ErrFfmpeg>>
            /\ entry = None /\ dl = <<>> /\ tc = <<>> /\ fs \subseteq PreExisting)
    /\ [][pc # "start" => pc' # "start"]_vars

\* C7 witness: the binary is missing and main has returned.
C7_Witness == ~ffmpeg /\ pc = "done" /\ log = <<ErrFfmpeg>>

\* C8: when the collaborator raises DownloadError the error is logged, the download
\* function returns (None, None), no unique filename is generated, the transcoder
\* is not invoked, no file is removed or renamed, and main is at the continue prompt.
C8_DownloadFailureSkipsTheRest ==
    /\ []((dl # <<>> /\ dl[Len(dl)].result = "DownloadError") =>
            /\ file_path = None /\ title = None
            /\ output_file = None /\ tc = <<>>
            /\ pc \in {"continue", "done"})
    /\ [][(pc = "download" /\ dl'[Len(dl')].result = "DownloadError")
            => log' = <<ErrDownload>> /\ pc' = "continue" /\ fs' = fs]_vars
    /\ [][(pc = "continue" /\ dl # <<>> /\ dl[Len(dl)].result = "DownloadError")
            => fs' = fs /\ tc' = <<>> /\ output_file' = None]_vars

\* C8 witness: the download failed and main waits at the continue prompt.
C8_Witness ==
    /\ pc = "continue"
    /\ dl # <<>> /\ dl[Len(dl)].result = "DownloadError"
    /\ log = <<ErrDownload>>

\* the answer ends the loop: 'no' in A and C, anything but 'yes' in B
Declines(e) ==
    IF script = "B" THEN lower(strip(e)) # YES ELSE lower(strip(e)) = NO

\* C9: once the startup check has passed, main returns only from the continue
\* prompt, on an answer that declines; the answer 'yes' starts another iteration;
\* a refused entry, a failed download or a failed conversion does not end it.
C9_ExitOnlyByDeclining ==
    /\ [][(pc # "start" /\ pc # "done" /\ pc' = "done")
            => pc = "continue" /\ Declines(entry')]_vars
    /\ [][(pc = "continue" /\ lower(strip(entry')) = YES)
            => pc' = "url" /\ dl' = <<>> /\ tc' = <<>>]_vars

\* C9 witness: after a failed download the user answered 'no' and main returned.
C9_Witness ==
    /\ ffmpeg /\ pc = "done"
    /\ entry = NO
    /\ dl # <<>> /\ dl[1].result = "DownloadError"

\* the first path of dir/t.mp3, dir/t_1.mp3, ... that is not in files
FirstFreeMp3(files, t) ==
    LET k == CHOOSE n \in 0..Cardinality(files) :
                 /\ NumberedPath(t, n, MP3) \notin files
                 /\ \A j \in 0..(n - 1) : NumberedPath(t, j, MP3) \in files
    IN NumberedPath(t, k, MP3)

\* the bitrate of the chosen audio quality
BitrateOf(quality) ==
    IF quality = LOW THEN "128k" ELSE IF quality = HIGH THEN "320k" ELSE "192k"

====
